---- MODULE Spec2Model ----
\* State machine of HueLightProject.py: the LightApp object (self.lights,
\* self.light_controls, the widget tree built by populate_lights), the four
\* handlers the Tk event loop runs one at a time, and the Hue bridge seen
\* through what it returns and what is sent to it.
EXTENDS Integers, Sequences, FiniteSets, TLC

\* ------------------------------------------------------------------ bounds
\* Lights the bridge can know: ids "1" .. MaxLights.
MaxLights == 2
\* Channel levels per RGB channel offered by the colour chooser in SpecColor.
NumLevels == 5

\* --------------------------------------------------------------- utilities
Max2(a, b) == IF a >= b THEN a ELSE b

Min2(a, b) == IF a <= b THEN a ELSE b

\* ------------------------------------------------ identifiers of the bridge
\* A string is a sequence of one-character strings.
DigitChars == <<"0", "1", "2", "3", "4", "5", "6", "7", "8", "9">>

IsDigit(c) == \E d \in 1..10 : DigitChars[d] = c

DigitValue(c) == (CHOOSE d \in 1..10 : DigitChars[d] = c) - 1

RECURSIVE DecimalValue(_)
DecimalValue(s) ==
    IF s = <<>> THEN 0
    ELSE 10 * DecimalValue(SubSeq(s, 1, Len(s) - 1)) + DigitValue(s[Len(s)])

\* int(light_id): the decimal value, or ValueError on the empty string or on
\* a character that is no digit.
IntRaises(s) == s = <<>> \/ \E i \in DOMAIN s : ~IsDigit(s[i])

IntOfId(s) == DecimalValue(s)

\* The identifiers of the lights: "1" .. MaxLights.
DeviceIds == {<<DigitChars[n + 1]>> : n \in 1..MaxLights}

\* ------------------------------------------------------ what the bridge reports
\* A light without colour capability has no hue and no saturation attribute.
DeviceKinds ==
    { [brightness |-> 100],
      [brightness |-> 200, hue |-> 8000, saturation |-> 120] }

\* A listed light whose identifier is no number.
MalformedLight ==
    [id |-> <<"x">>, name |-> <<"L", "x">>, on |-> FALSE, brightness |-> 100]

DeviceLights ==
    { [id |-> i, name |-> <<"L">> \o i, on |-> o] @@ k :
        i \in DeviceIds, o \in BOOLEAN, k \in DeviceKinds }
    \cup {MalformedLight}

\* bridge.get_light_objects('id'): the lights in the order the bridge lists
\* them, no identifier twice.
Responses ==
    UNION { { r \in [1..n -> DeviceLights] :
                \A i, j \in 1..n : i # j => r[i].id # r[j].id } :
            n \in 0..MaxLights }

\* A request to the bridge that fails: -1 none, 0 the enumeration itself,
\* i > 0 the read of light i's attributes.
Faults(resp) == -1..Len(resp)

\* getattr(light, attr, default)
getattr(light, attr, default) ==
    IF attr \in DOMAIN light THEN light[attr] ELSE default

LightDict(light) ==
    [ id          |-> IntOfId(light.id),
      name        |-> light.name,
      environment |-> "Default",
      state       |-> light.on,
      brightness  |-> light.brightness,
      hue         |-> getattr(light, "hue", 0),
      saturation  |-> getattr(light, "saturation", 254) ]

\* The loop of get_lights_from_hue from position i on; light_list is the
\* local list built so far. The result names the exception that left the
\* function, if any, and the list as it stood.
RECURSIVE FetchLoop(_, _, _, _)
FetchLoop(resp, fault, i, light_list) ==
    IF i > Len(resp) THEN [raised |-> "none", light_list |-> light_list]
    ELSE IF IntRaises(resp[i].id)
         THEN [raised |-> "ValueError", light_list |-> light_list]
    ELSE IF fault = i
         THEN [raised |-> "BridgeError", light_list |-> light_list]
    ELSE FetchLoop(resp, fault, i + 1, Append(light_list, LightDict(resp[i])))

get_lights_from_hue(resp, fault) ==
    IF fault = 0 THEN [raised |-> "BridgeError", light_list |-> <<>>]
    ELSE FetchLoop(resp, fault, 1, <<>>)

\* ------------------------------------------------------------- the widgets
\* A closure holds its light dict by reference: idx > 0 is a position of
\* self.lights; idx = 0 is a dict of a replaced list, kept alive by the
\* closure alone, with its value in rec.
NoRec == <<>>

CurrentRef(i) == [idx |-> i, rec |-> NoRec]

\* The capture of the loop variable by the default argument l=light, made in
\* iteration i of n.
BindLight_late(i, n) == CurrentRef(n)

BindLight(i, n) == CurrentRef(i)

\* Slider positions are kept in tenths.
Tenths == 10

from_ == 1

to == 254

\* int(var.get()): truncation of the slider's value.
IntOfVar(raw) == raw \div Tenths

\* Values a ttk.Scale with from_=1, to=254 hands to its variable.
SliderValues == {v \in {1307, to * Tenths} : from_ * Tenths <= v /\ v <= to * Tenths}

\* One control block: the label, the three callbacks' captured light, the
\* BooleanVar and the IntVar.
ControlBlock(lights, i) ==
    [ label      |-> lights[i].name,
      light      |-> BindLight(i, Len(lights)),
      var        |-> lights[i].state,
      bright_var |-> lights[i].brightness * Tenths ]

\* light_frame.pack under env_frames[env]: the new block goes last.
PackChild_first(children, k) == <<k>> \o children

PackChild(children, k) == Append(children, k)

EnvIndex(env_frames, env) ==
    IF \E g \in DOMAIN env_frames : env_frames[g].env = env
    THEN CHOOSE g \in DOMAIN env_frames : env_frames[g].env = env
    ELSE 0

\* The loop of populate_lights from light i on.
RECURSIVE PopulateLoop(_, _, _)
PopulateLoop(lights, i, acc) ==
    IF i > Len(lights) THEN acc
    ELSE
      LET env    == lights[i].environment
          frames == IF EnvIndex(acc.env_frames, env) = 0
                    THEN Append(acc.env_frames, [env |-> env, children |-> <<>>])
                    ELSE acc.env_frames
          g      == EnvIndex(frames, env)
          k      == Len(acc.blocks) + 1
      IN PopulateLoop(lights, i + 1,
           [ blocks         |-> Append(acc.blocks, ControlBlock(lights, i)),
             env_frames     |-> [frames EXCEPT
                                   ![g].children = PackChild(frames[g].children, k)],
             light_controls |-> [id \in DOMAIN acc.light_controls \cup {lights[i].id} |->
                                   IF id = lights[i].id THEN k
                                   ELSE acc.light_controls[id]] ])

\* widget.destroy() for every child of light_frame.
DestroyChildren(blocks) == <<>>

\* A closure that outlives the list its dict was in keeps the dict.
Orphaned(blocks, lights) ==
    [k \in DOMAIN blocks |->
        IF blocks[k].light.idx > 0
        THEN [blocks[k] EXCEPT !.light = [idx |-> 0, rec |-> lights[blocks[k].light.idx]]]
        ELSE blocks[k]]

populate_lights(old_blocks, lights) ==
    PopulateLoop(lights, 1,
        [ blocks         |-> DestroyChildren(old_blocks),
          env_frames     |-> <<>>,
          light_controls |-> <<>> ])

\* ------------------------------------------------------- colour conversion
\* colorsys.rgb_to_hsv on channels R/255, G/255, B/255, in exact fractions:
\* h and s as [num, den].
maxc(c) == Max2(c[1], Max2(c[2], c[3]))

minc(c) == Min2(c[1], Min2(c[2], c[3]))

rangec(c) == maxc(c) - minc(c)

HsvS(c) ==
    IF minc(c) = maxc(c) THEN [num |-> 0, den |-> 1]
    ELSE [num |-> rangec(c), den |-> maxc(c)]

\* bc-gc, 2.0+rc-bc, 4.0+gc-rc, each times rangec.
HsvSextant(c) ==
    IF c[1] = maxc(c) THEN c[2] - c[3]
    ELSE IF c[2] = maxc(c) THEN 2 * rangec(c) + (c[3] - c[1])
    ELSE 4 * rangec(c) + (c[1] - c[2])

\* h = (h/6.0) % 1.0
HsvH(c) ==
    IF minc(c) = maxc(c) THEN [num |-> 0, den |-> 1]
    ELSE [num |-> HsvSextant(c) % (6 * rangec(c)), den |-> 6 * rangec(c)]

\* int(x * scale) for the double nearest the fraction x. Where x * scale is a
\* whole number q and x is not a double itself (0, 1/2 and 1 are), the product
\* may round to just under q, and int gives q - 1.
IntScaled(x, scale) ==
    LET q == (scale * x.num) \div x.den
    IN IF (scale * x.num) % x.den = 0
          /\ ~(x.num = 0 \/ x.num = x.den \/ 2 * x.num = x.den)
       THEN {q - 1, q}
       ELSE {q}

hue_value(c) == IntScaled(HsvH(c), 65535)

saturation_value_255(c) == IntScaled(HsvS(c), 255)

saturation_value(c) == IntScaled(HsvS(c), 254)

\* colorchooser.askcolor()[0]: an RGB triple of 8-bit channels, or None.
None == <<>>

Levels == {(i * 255) \div (NumLevels - 1) : i \in 0..(NumLevels - 1)}

AllColors == Levels \X Levels \X Levels

SampleColors == {<<255, 255, 255>>, <<0, 85, 170>>}

\* ------------------------------------------------------------------- state
VARIABLES
    reported,        \* what the bridge listed at the last fetch that returned
    lights,          \* self.lights
    blocks,          \* the control blocks under self.light_frame, in creation order
    env_frames,      \* the environment frames in pack order, each with its blocks
    light_controls,  \* self.light_controls: light id -> the block holding its vars
    call,            \* the handler the event loop ran last, with its input
    sent,            \* the set_light requests that handler made, in order
    raised           \* the exception that left that handler, or "none"

vars == <<reported, lights, blocks, env_frames, light_controls, call, sent, raised>>

Call(op, k) ==
    [op |-> op, block |-> k, desired |-> FALSE, raw |-> 0, color |-> None, edited |-> FALSE]

\* The dict a block's callbacks were given.
Target(b) == IF b.light.idx > 0 THEN lights[b.light.idx] ELSE b.light.rec

\* bridge.set_light(id, ...): one request; it returns or raises.
set_light(id, fields, ok) ==
    [ sent   |-> <<[id |-> id, fields |-> fields]>>,
      raised |-> IF ok THEN "none" ELSE "BridgeError" ]

\* LightApp.__init__ with a bridge that answers.
Init ==
    \E resp \in Responses :
        LET r == get_lights_from_hue(resp, -1)
            w == populate_lights(<<>>, r.light_list)
        IN /\ r.raised = "none"
           /\ reported = resp
           /\ lights = r.light_list
           /\ blocks = w.blocks
           /\ env_frames = w.env_frames
           /\ light_controls = w.light_controls
           /\ call = Call("__init__", 0)
           /\ sent = <<>>
           /\ raised = "none"

\* light["state"] = var.get()
StoreState_skip(light, v) == light

StoreState(light, v) == [light EXCEPT !.state = v]

\* A click on block k's Checkbutton: Tk flips the BooleanVar, then calls
\* toggle_light(l, v).
toggle_light(k, ok) ==
    LET v == ~blocks[k].var
        l == StoreState(Target(blocks[k]), v)
        r == set_light(l.id, [on |-> l.state], ok)
    IN /\ lights' = IF blocks[k].light.idx > 0
                    THEN [lights EXCEPT ![blocks[k].light.idx] = l]
                    ELSE lights
       /\ blocks' = [blocks EXCEPT
                       ![k].var = v,
                       ![k].light.rec = IF blocks[k].light.idx > 0 THEN NoRec ELSE l]
       /\ sent' = r.sent
       /\ raised' = r.raised
       /\ call' = [Call("toggle_light", k) EXCEPT !.desired = v]
       /\ UNCHANGED <<reported, env_frames, light_controls>>

\* Block k's slider moved to raw: Tk writes the IntVar, then calls
\* set_brightness(l, v).
set_brightness(k, raw, ok) ==
    LET l          == Target(blocks[k])
        brightness == IntOfVar(raw)
        r          == set_light(l.id, [bri |-> brightness], ok)
    IN /\ blocks' = [blocks EXCEPT ![k].bright_var = raw]
       /\ sent' = r.sent
       /\ raised' = r.raised
       /\ call' = [Call("set_brightness", k) EXCEPT !.raw = raw]
       /\ UNCHANGED <<reported, lights, env_frames, light_controls>>

\* Block k's "Pick Color" pressed and the chooser closed with color.
pick_color(k, color, ok) ==
    LET l == Target(blocks[k])
    IN /\ IF color = None
          THEN /\ sent' = <<>>
               /\ raised' = "none"
          ELSE \E h \in hue_value(color), s \in saturation_value(color) :
                 LET r == set_light(l.id, [hue |-> h, sat |-> s, on |-> TRUE], ok)
                 IN /\ sent' = r.sent
                    /\ raised' = r.raised
       /\ call' = [Call("pick_color", k) EXCEPT !.color = color]
       /\ UNCHANGED <<reported, lights, blocks, env_frames, light_controls>>

\* self.lights = self.get_lights_from_hue(): bound only if the call returns.
Assigned_partial(old, r) == r.light_list

Assigned_merge(old, r) ==
    IF r.raised # "none" THEN old
    ELSE [i \in DOMAIN r.light_list |->
            IF \E j \in DOMAIN old : old[j].id = r.light_list[i].id
            THEN old[CHOOSE j \in DOMAIN old : old[j].id = r.light_list[i].id]
            ELSE r.light_list[i]]

Assigned(old, r) == IF r.raised = "none" THEN r.light_list ELSE old

\* "Refresh Lights" pressed; the bridge lists resp, with fault. populate_lights
\* runs only if the fetch returned.
refresh_lights(resp, fault) ==
    \E r \in {get_lights_from_hue(resp, fault)} :
       /\ lights' = Assigned(lights, r)
       /\ IF r.raised = "none"
          THEN \E w \in {populate_lights(Orphaned(blocks, lights), lights')} :
                 /\ reported' = resp
                 /\ blocks' = w.blocks
                 /\ env_frames' = w.env_frames
                 /\ light_controls' = w.light_controls
          ELSE UNCHANGED <<reported, blocks, env_frames, light_controls>>
       /\ sent' = <<>>
       /\ raised' = r.raised
       /\ call' = [Call("refresh_lights", 0) EXCEPT
                     !.edited = (lights # get_lights_from_hue(reported, -1).light_list)]

Next ==
    \/ \E k \in DOMAIN blocks, ok \in BOOLEAN : toggle_light(k, ok)
    \/ \E k \in DOMAIN blocks, raw \in SliderValues, ok \in BOOLEAN :
          set_brightness(k, raw, ok)
    \/ \E k \in DOMAIN blocks, color \in SampleColors \cup {None}, ok \in BOOLEAN :
          pick_color(k, color, ok)
    \/ \E resp \in Responses : \E fault \in Faults(resp) : refresh_lights(resp, fault)

Spec == Init /\ [][Next]_vars

\* The colour chooser over every colour on the level grid.
NextColor ==
    \E k \in DOMAIN blocks, color \in AllColors, ok \in BOOLEAN : pick_color(k, color, ok)

\* The application started on a bridge that lists one light.
InitColor == Init /\ Len(lights) = 1

SpecColor == InitColor /\ [][NextColor]_vars

\* ------------------------------------------------------------------ claims
\* The block a handler ran on, and the dict its callbacks hold.
CalledLight == Target(blocks[call.block])

ColorPicked == call.op = "pick_color" /\ call.color # None

RefreshFailed == call.op = "refresh_lights" /\ raised # "none"

RefreshReturned == call.op = "refresh_lights" /\ raised = "none"

\* C1: a refresh whose fetch raised (the bridge failed at the enumeration or at
\* any light, or listed an identifier that is no number) leaves self.lights, and
\* every field of every dict in it, as it was before the refresh; after it a
\* refresh can be run again.
C1_FailedFetchAtomic ==
    /\ [][RefreshFailed' => lights' = lights]_vars
    /\ [](RefreshFailed => ENABLED (\E resp \in Responses : refresh_lights(resp, -1)))

C1_Witness ==
    /\ RefreshFailed
    /\ call.edited
    /\ Len(lights) = 2

\* C2: after a refresh that returned, self.lights holds one dict per light the
\* bridge listed, in that order, with the listed on/off and brightness, and the
\* listed hue and saturation (0 and 254 where the light has none); no state set
\* by a toggle since the fetch before survives.
C2_RefreshReplacesRegistry ==
    RefreshReturned =>
        /\ Len(lights) = Len(reported)
        /\ {lights[i].id : i \in DOMAIN lights}
             = {DecimalValue(reported[i].id) : i \in DOMAIN reported}
        /\ \A i \in DOMAIN lights :
              /\ <<DigitChars[lights[i].id + 1]>> = reported[i].id
              /\ lights[i].state = reported[i].on
              /\ lights[i].brightness = reported[i].brightness
              /\ lights[i].hue = IF "hue" \in DOMAIN reported[i]
                                 THEN reported[i].hue ELSE 0
              /\ lights[i].saturation = IF "saturation" \in DOMAIN reported[i]
                                        THEN reported[i].saturation ELSE 254

C2_Witness ==
    /\ RefreshReturned
    /\ call.edited
    /\ Len(lights) = 2
    /\ ~lights[1].state

\* The slider value truncated to an integer and clamped to 1..254.
ClampedBrightness(raw) == Max2(from_, Min2(to, raw \div Tenths))

\* C3: after set_brightness the dict's brightness is the slider value
\* truncated and clamped to 1..254, and that value is the one sent in the one
\* "bri" request.
C3_BrightnessStored ==
    call.op = "set_brightness" =>
        /\ CalledLight.brightness = ClampedBrightness(call.raw)
        /\ sent = <<[id |-> CalledLight.id, fields |-> [bri |-> CalledLight.brightness]]>>

\* C4: after a colour was picked for a light, its dict's state is True and
\* the request sent carries on = True.
C4_ColorTurnsRecordOn ==
    ColorPicked =>
        /\ CalledLight.state = TRUE
        /\ sent[1].fields.on = TRUE

\* C5: after a colour was picked for a light, one request was sent for its id
\* and the dict's hue and saturation are the ones that request carries.
C5_ColorStored ==
    ColorPicked =>
        /\ Len(sent) = 1
        /\ sent[1].id = CalledLight.id
        /\ CalledLight.hue = sent[1].fields.hue
        /\ CalledLight.saturation = sent[1].fields.sat

\* C6: after toggle_light the dict's state is the value the Checkbutton was
\* set to, exactly one request was made, an "on" request with that value for
\* that light, and this is so whether the request returned or raised.
C6_ToggleOptimistic ==
    call.op = "toggle_light" =>
        /\ CalledLight.state = call.desired
        /\ blocks[call.block].var = call.desired
        /\ sent = <<[id |-> CalledLight.id, fields |-> [on |-> call.desired]]>>
        /\ raised \in {"none", "BridgeError"}

C6_Witness ==
    /\ call.op = "toggle_light"
    /\ raised = "BridgeError"
    /\ call.desired
    /\ CalledLight.state
    /\ Len(sent) = 1

\* C8: for a colour of 8-bit channels the hue sent is in 0..65535 and the
\* saturation sent is in 0..254; white gives saturation 0, red gives hue 0 and
\* saturation 254.
C8_ColorInDeviceRange ==
    ColorPicked =>
        /\ sent[1].fields.hue \in 0..65535
        /\ sent[1].fields.sat \in 0..254
        /\ call.color = <<255, 255, 255>> => sent[1].fields.sat = 0
        /\ call.color = <<255, 0, 0>> =>
              sent[1].fields.hue = 0 /\ sent[1].fields.sat = 254

\* A colour past magenta, where bc-gc is negative before the % 1.0.
C8_Witness ==
    /\ ColorPicked
    /\ call.color[1] = 255
    /\ call.color[2] < call.color[3]
    /\ sent[1].fields.hue > 32767
    /\ sent[1].fields.sat > 0

\* The position in self.lights where environment env first occurs.
FirstWith(env) == CHOOSE i \in DOMAIN lights :
    /\ lights[i].environment = env
    /\ \A j \in 1..(i - 1) : lights[j].environment # env

\* C9: the environment frames partition the control blocks by environment,
\* each frame holding its blocks in the order their lights have in self.lights
\* (the order the bridge listed them), frames in the order their environment
\* first occurs, every light in exactly one frame; building again from the same
\* list gives the same frames.
C9_ViewOrderPreserving ==
    /\ Len(blocks) = Len(lights)
    /\ \A k \in DOMAIN blocks : blocks[k].label = lights[k].name
    /\ \A i \in DOMAIN lights : <<DigitChars[lights[i].id + 1]>> = reported[i].id
    /\ \A i \in DOMAIN lights :
          \E g \in DOMAIN env_frames : env_frames[g].env = lights[i].environment
    /\ \A g \in DOMAIN env_frames :
          /\ env_frames[g].children # <<>>
          /\ env_frames[g].children =
                SelectSeq([k \in DOMAIN lights |-> k],
                          LAMBDA k : lights[k].environment = env_frames[g].env)
          /\ \A h \in DOMAIN env_frames :
                g < h => FirstWith(env_frames[g].env) < FirstWith(env_frames[h].env)
    /\ populate_lights(blocks, lights).env_frames = env_frames

C9_Witness ==
    /\ RefreshReturned
    /\ Len(lights) = 2
    /\ lights[1].id > lights[2].id
    /\ env_frames = <<[env |-> "Default", children |-> <<1, 2>>]>>

\* C10: the keys of self.light_controls are the ids of the dicts in
\* self.lights; the block stored under an id holds, in its callbacks, the dict
\* with that id in the current self.lights; no block holds a dict of a replaced
\* list; and a request made by a block's handler names that block's light.
C10_ControlsBound ==
    /\ DOMAIN light_controls = {lights[i].id : i \in DOMAIN lights}
    /\ \A k \in DOMAIN blocks :
          /\ blocks[k].light.idx \in DOMAIN lights
          /\ \E id \in DOMAIN light_controls : light_controls[id] = k
    /\ \A id \in DOMAIN light_controls :
          /\ light_controls[id] \in DOMAIN blocks
          /\ lights[blocks[light_controls[id]].light.idx].id = id
    /\ (call.block \in DOMAIN blocks /\ sent # <<>>) =>
          light_controls[sent[1].id] = call.block

C10_Witness ==
    /\ Len(blocks) = 2
    /\ call.op = "toggle_light"
    /\ call.block = 1
    /\ lights[1].state = call.desired
    /\ lights[1].state # reported[1].on
    /\ lights[2].state = reported[2].on

====
